---------------------------- MODULE Spec2Model ----------------------------
(***************************************************************************)
(* Trajectory propagation around an irregular body (67P-Swarm).            *)
(*                                                                         *)
(* The module models the two engines of "Introductory Tests":              *)
(*   Trajectory            (Trajectory.py)                                 *)
(*   udp_initial_condition (udp_initial_condition.py)                      *)
(* their constructors, one integration run (integrate /                    *)
(* compute_trajectory), the risk-zone event function, the collision        *)
(* penalty and the fitness wrapper.                                        *)
(*                                                                         *)
(* Numbers are integers.  Positions and velocities are integer 3-vectors,  *)
(* a comparison with a norm is made on the squares, and the penalty        *)
(* 1e30, which no TLC integer holds, is counted in units of 1e30.          *)
(***************************************************************************)
EXTENDS Integers, Sequences, FiniteSets

(***************************************************************************)
(* Bounds of the model.                                                    *)
(***************************************************************************)
MaxTime == 3
MaxPos == 4
MaxVel == 2
MaxRadius == 3
MaxEvals == 2

VARIABLES
  kind,               \* which class was instantiated: "Trajectory" or "udp"
  args,               \* the arguments of the constructor call
  self,               \* the instance's attributes (name -> value), as __dict__
  fattr,              \* attributes of the event function object (is_terminal)
  pc,                 \* NEW, FAILED, IDLE, and the phases of one run
  caller,             \* entry point of the current run
  x,                  \* the initial state handed to the run
  t, y,               \* the integrator's current time and state
  ev,                 \* the event function's value at (t, y)
  traj,               \* trajectory.t / trajectory.y : the accepted samples
  events,             \* trajectory.events
  squared_altitudes,
  points,             \* points_inisde_risk_zone
  is_outside_calls,   \* invocations of point_is_outside_mesh in this run
  collision_avoided,
  collision_penalty,  \* in units of 1e30
  fitness_value,      \* fitness's local
  last                \* the call that returned last: its entry, input and values

vars == <<kind, args, self, fattr, pc, caller, x, t, y, ev, traj, events,
          squared_altitudes, points, is_outside_calls, collision_avoided,
          collision_penalty, fitness_value, last>>

runvars == <<t, y, ev, traj, events, squared_altitudes, points,
             is_outside_calls, collision_avoided, collision_penalty,
             fitness_value>>

(***************************************************************************)
(* Arithmetic helpers.                                                     *)
(***************************************************************************)
Abs(n) == IF n < 0 THEN -n ELSE n

Sign(n) == IF n < 0 THEN -1 ELSE IF n > 0 THEN 1 ELSE 0

Min(a, b) == IF a <= b THEN a ELSE b

NormSq(p) == p[1] * p[1] + p[2] * p[2] + p[3] * p[3]

RECURSIVE SumSeq(_)
SumSeq(s) == IF s = <<>> THEN 0 ELSE Head(s) + SumSeq(Tail(s))

Empty == [n \in {} |-> 0]

Has(d, name) == name \in DOMAIN d

Put(d, name, v) == [n \in DOMAIN d \cup {name} |-> IF n = name THEN v ELSE d[n]]

(***************************************************************************)
(* mesh_utility, the mesh collaborator: the body is a closed box with      *)
(* half extents 2, 1 and 1 centred on the origin.                          *)
(***************************************************************************)
MeshVertices == {<<a, b, c>> : a \in {-2, 2}, b \in {-1, 1}, c \in {-1, 1}}

\* the square of create_mesh's largest_body_protuberant
LargestProtuberantSq == CHOOSE m \in {NormSq(v) : v \in MeshVertices} :
                          \A v \in MeshVertices : NormSq(v) <= m

create_mesh == [vertices |-> MeshVertices, protuberant_sq |-> LargestProtuberantSq]

\* a point on a face counts as inside
InsideMesh(p, vertices) ==
  \A i \in 1..3 : \E v \in vertices : Abs(p[i]) <= Abs(v[i])

is_outside(pts, vertices) == [i \in 1..Len(pts) |-> ~InsideMesh(pts[i], vertices)]

point_is_outside_mesh(pts, vertices) == is_outside(pts, vertices)

(***************************************************************************)
(* Equations_of_motion.compute_motion, the derivative function: a pure     *)
(* function of the state; the body pulls every component towards the       *)
(* origin.                                                                 *)
(***************************************************************************)
compute_motion(state) ==
  [dpos |-> state.vel,
   dvel |-> <<-Sign(state.pos[1]), -Sign(state.pos[2]), -Sign(state.pos[3])>>]

(***************************************************************************)
(* The risk-zone event function.  distance = risk_zone_radius - |position|;*)
(* distance >= 0 is decided on the squares.                                *)
(***************************************************************************)
DistanceNonNegative(position, risk_zone_radius) ==
  risk_zone_radius >= 0 /\ NormSq(position) <= risk_zone_radius * risk_zone_radius

check_inside_risk_zone(time, state, risk_zone_radius) ==
  IF DistanceNonNegative(state.pos, risk_zone_radius) THEN 0 ELSE 1

(***************************************************************************)
(* Inputs.                                                                 *)
(***************************************************************************)
Densities == {0, 1}

StartTimes == {0, 1}

FinalTimes == 0..MaxTime

TimeSteps == 1..MaxTime

Radii == 2..MaxRadius

Algorithms == {1}

TargetAltitudes == {0, 9}

BoundVectors == {<<0, 1>>, <<1, 1>>, <<2, 2>>}

InitialStates ==
  {[pos |-> <<px, py, 0>>, vel |-> <<vx, 0, 0>>] :
     px \in 0..MaxPos, py \in {0, 1}, vx \in (-MaxVel)..1}

TrajectoryArgs ==
  [body_density : Densities, final_time : FinalTimes, start_time : StartTimes,
   time_step : TimeSteps, algorithm : Algorithms, radius_bounding_sphere : Radii]

UdpArgs ==
  [body_density : Densities, target_altitude : TargetAltitudes,
   final_time : FinalTimes, start_time : StartTimes, time_step : TimeSteps,
   lower_bounds : BoundVectors, upper_bounds : BoundVectors,
   algorithm : Algorithms, radius_bounding_sphere : Radii]

(***************************************************************************)
(* Construction.                                                           *)
(***************************************************************************)
\* radius_bounding_sphere > largest_body_protuberant, on the squares
ExceedsProtuberant(radius, protuberant_sq) ==
  radius > 0 /\ radius * radius > protuberant_sq

\* numpy's ndarray.all(): every element is non-zero
NdAll(v) == \A i \in DOMAIN v : v[i] # 0

\* Python's bool < bool
BoolLess(a, b) == ~a /\ b

\* the assertions with the step compared to final_time alone
TrajectoryAssertsNoStart(a, mesh) ==
  /\ a.body_density > 0
  /\ a.final_time > a.start_time
  /\ a.time_step <= a.final_time
  /\ ExceedsProtuberant(a.radius_bounding_sphere, mesh.protuberant_sq)

TrajectoryAsserts(a, mesh) ==
  /\ a.body_density > 0
  /\ a.final_time > a.start_time
  /\ a.time_step <= a.final_time - a.start_time
  /\ ExceedsProtuberant(a.radius_bounding_sphere, mesh.protuberant_sq)

UdpAsserts(a, mesh) ==
  /\ a.body_density > 0
  /\ a.target_altitude > 0
  /\ a.final_time > a.start_time
  /\ a.time_step <= a.final_time - a.start_time
  /\ BoolLess(NdAll(a.lower_bounds), NdAll(a.upper_bounds))
  /\ ExceedsProtuberant(a.radius_bounding_sphere, mesh.protuberant_sq)

MeshAttrs(mesh) == [body_mesh |-> mesh, mesh_vertices |-> mesh.vertices]

TrajectoryAttrs(a, mesh) ==
  [body_mesh |-> mesh, mesh_vertices |-> mesh.vertices,
   eq_of_motion |-> [density |-> a.body_density],
   start_time |-> a.start_time, final_time |-> a.final_time,
   time_step |-> a.time_step, algorithm |-> a.algorithm,
   radius_bounding_sphere |-> a.radius_bounding_sphere, k |-> 1]

UdpAttrs(a, mesh) ==
  [body_mesh |-> mesh, mesh_vertices |-> mesh.vertices,
   eq_of_motion |-> [density |-> a.body_density],
   start_time |-> a.start_time, final_time |-> a.final_time,
   time_step |-> a.time_step, target_altitude |-> a.target_altitude,
   lower_bounds |-> a.lower_bounds, upper_bounds |-> a.upper_bounds,
   algorithm |-> a.algorithm,
   radius_bounding_sphere |-> a.radius_bounding_sphere, k |-> 1]

Init ==
  /\ kind = "none"
  /\ args = Empty
  /\ self = Empty
  /\ fattr = Empty
  /\ pc = "NEW"
  /\ caller = "none"
  /\ x = Empty
  /\ t = 0
  /\ y = Empty
  /\ ev = 0
  /\ traj = <<>>
  /\ events = <<>>
  /\ squared_altitudes = <<>>
  /\ points = <<>>
  /\ is_outside_calls = 0
  /\ collision_avoided = <<>>
  /\ collision_penalty = 0
  /\ fitness_value = Empty
  /\ last = Empty

\* Trajectory.__init__
ConstructTrajectory ==
  /\ pc = "NEW"
  /\ \E a \in TrajectoryArgs :
       LET mesh == create_mesh IN
       /\ kind' = "Trajectory"
       /\ args' = a
       /\ IF TrajectoryAsserts(a, mesh)
            THEN self' = TrajectoryAttrs(a, mesh) /\ pc' = "IDLE"
            ELSE self' = MeshAttrs(mesh) /\ pc' = "FAILED"
  /\ UNCHANGED <<fattr, caller, x, runvars, last>>

\* udp_initial_condition.__init__
ConstructUdp ==
  /\ pc = "NEW"
  /\ \E a \in UdpArgs :
       LET mesh == create_mesh IN
       /\ kind' = "udp"
       /\ args' = a
       /\ IF UdpAsserts(a, mesh)
            THEN self' = UdpAttrs(a, mesh) /\ pc' = "IDLE"
            ELSE self' = MeshAttrs(mesh) /\ pc' = "FAILED"
  /\ UNCHANGED <<fattr, caller, x, runvars, last>>

(***************************************************************************)
(* Entry points.  Each call opens a fresh frame: the locals of the run are *)
(* those of the new call.                                                  *)
(***************************************************************************)
NewFrame ==
  /\ t' = 0
  /\ y' = Empty
  /\ ev' = 0
  /\ traj' = <<>>
  /\ events' = <<>>
  /\ squared_altitudes' = <<>>
  /\ points' = <<>>
  /\ is_outside_calls' = 0
  /\ collision_avoided' = <<>>
  /\ collision_penalty' = 0
  /\ fitness_value' = Empty
  /\ last' = Empty

\* a caller invokes Trajectory.integrate(x)
CallIntegrate ==
  /\ pc = "IDLE"
  /\ kind = "Trajectory"
  /\ \E x0 \in InitialStates : x' = x0
  /\ caller' = "integrate"
  /\ pc' = "INIT"
  /\ NewFrame
  /\ UNCHANGED <<kind, args, self, fattr>>

\* a caller invokes udp_initial_condition.compute_trajectory(x) directly
CallComputeTrajectory ==
  /\ pc = "IDLE"
  /\ kind = "udp"
  /\ \E x0 \in InitialStates : x' = x0
  /\ caller' = "compute_trajectory"
  /\ pc' = "INIT"
  /\ NewFrame
  /\ UNCHANGED <<kind, args, self, fattr>>

\* the optimizer invokes udp_initial_condition.fitness(x), which starts with
\* self.compute_trajectory(np.array(x))
CallFitness ==
  /\ pc = "IDLE"
  /\ kind = "udp"
  /\ self.k <= MaxEvals
  /\ \E x0 \in InitialStates : x' = x0
  /\ caller' = "fitness"
  /\ pc' = "INIT"
  /\ NewFrame
  /\ UNCHANGED <<kind, args, self, fattr>>

(***************************************************************************)
(* One run: integrate / compute_trajectory.                                *)
(***************************************************************************)
\* the flag set the other way
TerminalSettingTrue == TRUE

\* the value the run gives the event function's is_terminal attribute
TerminalSetting == FALSE

\* desolver reads the attribute; an event without it is not terminal
IsTerminal == Has(fattr, "is_terminal") /\ fattr["is_terminal"]

\* set up the OdeSystem (y0, t, dt, constants) and the event's flag
StartRun ==
  /\ pc = "INIT"
  /\ t' = self.start_time
  /\ y' = x
  /\ traj' = << [t |-> self.start_time, y |-> x] >>
  /\ events' = <<>>
  /\ ev' = check_inside_risk_zone(self.start_time, x, self.radius_bounding_sphere)
  /\ fattr' = Put(fattr, "is_terminal", TerminalSetting)
  /\ pc' = "INTEGRATING"
  /\ UNCHANGED <<kind, args, self, caller, x, squared_altitudes, points,
                 is_outside_calls, collision_avoided, collision_penalty,
                 fitness_value, last>>

\* one accepted step of size h of the derivative function
Advance(state, h) ==
  LET d == compute_motion(state) IN
  [pos |-> <<state.pos[1] + h * d.dpos[1], state.pos[2] + h * d.dpos[2],
             state.pos[3] + h * d.dpos[3]>>,
   vel |-> <<state.vel[1] + h * d.dvel[1], state.vel[2] + h * d.dvel[2],
             state.vel[3] + h * d.dvel[3]>>]

\* the event function changed sign over the step
EventDetected(ev_before, ev_after) == Sign(ev_before) # Sign(ev_after)

\* trajectory.integrate(events=check_inside_risk_zone): one accepted step.
\* The step is cut at final_time; the event function is evaluated at the new
\* state and a change of sign against the previous one records an event; a
\* terminal event ends the integration there.  The recorded state is the
\* accepted sample at which the change is seen: the library refines it
\* towards the crossing itself, which lies on the bounding sphere.
Step ==
  /\ pc = "INTEGRATING"
  /\ t < self.final_time
  /\ LET h == Min(self.time_step, self.final_time - t)
         tn == t + h
         yn == Advance(y, h)
         evn == check_inside_risk_zone(tn, yn, self.radius_bounding_sphere)
         hit == EventDetected(ev, evn)
     IN  /\ t' = tn
         /\ y' = yn
         /\ ev' = evn
         /\ traj' = Append(traj, [t |-> tn, y |-> yn])
         /\ events' = IF hit THEN Append(events, [t |-> tn, y |-> yn]) ELSE events
         /\ pc' = IF (hit /\ IsTerminal) \/ tn >= self.final_time
                    THEN "FINISHED" ELSE "INTEGRATING"
  /\ UNCHANGED <<kind, args, self, fattr, caller, x, squared_altitudes, points,
                 is_outside_calls, collision_avoided, collision_penalty,
                 fitness_value, last>>

\* trajectory_info, squared_altitudes and the array of event positions
Summarise ==
  /\ pc = "FINISHED"
  /\ squared_altitudes' = [i \in 1..Len(traj) |-> NormSq(traj[i].y.pos)]
  /\ points' = [i \in 1..Len(events) |-> events[i].y.pos]
  /\ pc' = "CLASSIFY"
  /\ UNCHANGED <<kind, args, self, fattr, caller, x, t, y, ev, traj, events,
                 is_outside_calls, collision_avoided, collision_penalty,
                 fitness_value, last>>

\* Python's all(): every entry is true (true of the empty sequence)
PyAll(bools) == \A i \in DOMAIN bools : bools[i]

\* the penalty with any() in the place of all()
PenaltyOfAny(avoided) == IF \E i \in DOMAIN avoided : avoided[i] THEN 0 ELSE 1

\* 0 if all(collision_avoided) == True else 1e30, in units of 1e30
PenaltyOf(avoided) == IF PyAll(avoided) THEN 0 ELSE 1

\* the classification short-circuited when no event was recorded
ClassifySkipping ==
  /\ pc = "CLASSIFY"
  /\ LET avoided == IF points = <<>> THEN <<>>
                    ELSE point_is_outside_mesh(points, self.mesh_vertices) IN
       /\ collision_avoided' = avoided
       /\ collision_penalty' = PenaltyOf(avoided)
  /\ is_outside_calls' = IF points = <<>> THEN is_outside_calls
                         ELSE is_outside_calls + 1
  /\ pc' = "DONE"
  /\ UNCHANGED <<kind, args, self, fattr, caller, x, t, y, ev, traj, events,
                 squared_altitudes, points, fitness_value, last>>

\* point_is_outside_mesh over the event positions, then the penalty
Classify ==
  /\ pc = "CLASSIFY"
  /\ LET avoided == point_is_outside_mesh(points, self.mesh_vertices) IN
       /\ collision_avoided' = avoided
       /\ collision_penalty' = PenaltyOf(avoided)
  /\ is_outside_calls' = is_outside_calls + 1
  /\ pc' = "DONE"
  /\ UNCHANGED <<kind, args, self, fattr, caller, x, t, y, ev, traj, events,
                 squared_altitudes, points, fitness_value, last>>

\* what the run returns: trajectory_info, squared_altitudes, collision_penalty
Returned == [traj |-> traj, sq |-> squared_altitudes, penalty |-> collision_penalty]

\* integrate / compute_trajectory returns to its caller; the frame is gone
Return ==
  /\ pc = "DONE"
  /\ caller \in {"integrate", "compute_trajectory"}
  /\ last' = [fn |-> caller, x |-> x, run |-> Returned, out |-> Returned]
  /\ pc' = "IDLE"
  /\ caller' = "none"
  /\ x' = Empty
  /\ t' = 0
  /\ y' = Empty
  /\ ev' = 0
  /\ traj' = <<>>
  /\ events' = <<>>
  /\ squared_altitudes' = <<>>
  /\ points' = <<>>
  /\ is_outside_calls' = 0
  /\ collision_avoided' = <<>>
  /\ collision_penalty' = 0
  /\ UNCHANGED <<kind, args, self, fattr, fitness_value>>

\* the fitness with the debug counter leaking into it
FitnessValueCounted ==
  [num |-> SumSeq([i \in 1..Len(squared_altitudes) |->
                     Abs(squared_altitudes[i] - self.target_altitude)]) + self.k,
   den |-> Len(squared_altitudes),
   penalty |-> collision_penalty]

\* the fitness without the penalty
FitnessValueNoPenalty ==
  [num |-> SumSeq([i \in 1..Len(squared_altitudes) |->
                     Abs(squared_altitudes[i] - self.target_altitude)]),
   den |-> Len(squared_altitudes),
   penalty |-> 0]

\* np.mean(np.abs(squared_altitudes - target)) + collision_penalty: the mean
\* as the fraction num/den, the penalty in units of 1e30
FitnessValue ==
  [num |-> SumSeq([i \in 1..Len(squared_altitudes) |->
                     Abs(squared_altitudes[i] - self.target_altitude)]),
   den |-> Len(squared_altitudes),
   penalty |-> collision_penalty]

\* fitness, after compute_trajectory returned: the fitness value
Score ==
  /\ pc = "DONE"
  /\ caller = "fitness"
  /\ fitness_value' = FitnessValue
  /\ pc' = "SCORED"
  /\ UNCHANGED <<kind, args, self, fattr, caller, x, t, y, ev, traj, events,
                 squared_altitudes, points, is_outside_calls,
                 collision_avoided, collision_penalty, last>>

\* fitness: the debug counter and the one-element list
FitnessReturn ==
  /\ pc = "SCORED"
  /\ last' = [fn |-> "fitness", x |-> x, run |-> Returned, out |-> <<fitness_value>>]
  /\ self' = [self EXCEPT !.k = @ + 1]
  /\ pc' = "IDLE"
  /\ caller' = "none"
  /\ x' = Empty
  /\ t' = 0
  /\ y' = Empty
  /\ ev' = 0
  /\ traj' = <<>>
  /\ events' = <<>>
  /\ squared_altitudes' = <<>>
  /\ points' = <<>>
  /\ is_outside_calls' = 0
  /\ collision_avoided' = <<>>
  /\ collision_penalty' = 0
  /\ fitness_value' = Empty
  /\ UNCHANGED <<kind, args, fattr>>

\* get_bounds
get_bounds == <<self.lower_bounds, self.upper_bounds>>

\* the optimizer asks for the bounds
GetBounds ==
  /\ pc = "IDLE"
  /\ kind = "udp"
  /\ last' = [fn |-> "get_bounds", out |-> get_bounds]
  /\ UNCHANGED <<kind, args, self, fattr, pc, caller, x, runvars>>

Next ==
  \/ ConstructTrajectory
  \/ ConstructUdp
  \/ CallIntegrate
  \/ CallComputeTrajectory
  \/ CallFitness
  \/ StartRun
  \/ Step
  \/ Summarise
  \/ Classify
  \/ Return
  \/ Score
  \/ FitnessReturn
  \/ GetBounds

Spec == Init /\ [][Next]_vars

(***************************************************************************)
(* Properties.                                                             *)
(***************************************************************************)
Running == pc \in {"INTEGRATING", "FINISHED", "CLASSIFY", "DONE", "SCORED"}

Integrated == pc \in {"FINISHED", "CLASSIFY", "DONE", "SCORED"}

Classified == pc \in {"DONE", "SCORED"}

EventInsideMesh == \E i \in 1..Len(events) : InsideMesh(events[i].y.pos, MeshVertices)

\* C1: during integration the event function's value at the current state is
\* 0 when the position norm equals risk_zone_radius and non-zero when the
\* norm is strictly less than risk_zone_radius.
C1_EventStrictlyInside ==
  pc = "INTEGRATING" =>
    LET r == self.radius_bounding_sphere IN
    /\ (NormSq(y.pos) = r * r => ev = 0)
    /\ (NormSq(y.pos) < r * r => ev # 0)

\* C2: the collision penalty a run returns is 0 when no event was recorded,
\* 1e30 when some recorded event point lies inside the mesh, 0 when every
\* recorded event point lies outside, and never anything else.
C2_PenaltyValues ==
  /\ Classified =>
       /\ collision_penalty \in {0, 1}
       /\ (Len(events) = 0 => collision_penalty = 0)
       /\ (EventInsideMesh => collision_penalty = 1)
       /\ (~EventInsideMesh => collision_penalty = 0)
  /\ (pc = "IDLE" /\ Has(last, "run")) => last.run.penalty \in {0, 1}

C2_CollisionPenalised ==
  pc = "DONE" /\ Len(events) >= 1 /\ EventInsideMesh /\ collision_penalty = 1

\* the four preconditions of Trajectory, on the constructor's arguments
TrajectoryPreconditions ==
  /\ args.body_density > 0
  /\ args.final_time > args.start_time
  /\ args.time_step <= args.final_time - args.start_time
  /\ args.radius_bounding_sphere > 0
  /\ args.radius_bounding_sphere * args.radius_bounding_sphere > LargestProtuberantSq

ConfigAttrs == {"start_time", "final_time", "time_step", "algorithm",
                "radius_bounding_sphere", "eq_of_motion"}

\* C3: constructing a Trajectory fails, with none of the configuration
\* attributes assigned, exactly when one of the four preconditions is
\* violated; every constructed engine satisfies all four.
C3_ConstructionChecked ==
  kind = "Trajectory" =>
    /\ (pc = "FAILED") <=> ~TrajectoryPreconditions
    /\ pc = "FAILED" => DOMAIN self \cap ConfigAttrs = {}
    /\ pc # "FAILED" =>
         /\ ConfigAttrs \subseteq DOMAIN self
         /\ self.eq_of_motion.density > 0
         /\ self.final_time > self.start_time
         /\ self.time_step <= self.final_time - self.start_time
         /\ self.radius_bounding_sphere * self.radius_bounding_sphere
              > LargestProtuberantSq

C3_RejectedForRadius ==
  /\ kind = "Trajectory"
  /\ pc = "FAILED"
  /\ args.body_density > 0
  /\ args.final_time > args.start_time
  /\ args.time_step <= args.final_time - args.start_time
  /\ args.radius_bounding_sphere * args.radius_bounding_sphere <= LargestProtuberantSq

\* C4: constructing a udp_initial_condition fails whenever some index i has
\* lower_bounds[i] >= upper_bounds[i], and does not fail when the bounds are
\* elementwise ordered and the other preconditions hold.
C4_BoundsEnforced ==
  kind = "udp" =>
    LET unordered == \E i \in DOMAIN args.lower_bounds :
                       args.lower_bounds[i] >= args.upper_bounds[i]
        others == /\ args.body_density > 0
                  /\ args.target_altitude > 0
                  /\ args.final_time > args.start_time
                  /\ args.time_step <= args.final_time - args.start_time
                  /\ args.radius_bounding_sphere * args.radius_bounding_sphere
                       > LargestProtuberantSq
    IN  /\ unordered => pc = "FAILED"
        /\ (~unordered /\ others) => pc # "FAILED"

\* the samples at which the event function's value differs from the one before
Crossings == {i \in 2..Len(traj) :
                check_inside_risk_zone(traj[i - 1].t, traj[i - 1].y,
                                       self.radius_bounding_sphere)
                # check_inside_risk_zone(traj[i].t, traj[i].y,
                                         self.radius_bounding_sphere)}

\* C5: risk-zone events are not terminal: the flag is False while the run
\* integrates, the integration ends only at final_time however many
\* crossings occur, and every crossing is recorded as one event.
C5_NonTerminal ==
  /\ pc = "INTEGRATING" =>
       /\ Has(fattr, "is_terminal")
       /\ fattr["is_terminal"] = FALSE
       /\ t < self.final_time
  /\ Integrated =>
       /\ t = self.final_time
       /\ traj[Len(traj)].t = self.final_time
  /\ Running =>
       /\ Len(events) = Cardinality(Crossings)
       /\ \A i \in Crossings : \E j \in 1..Len(events) : events[j] = traj[i]

C5_ManyCrossings == pc = "FINISHED" /\ Len(events) >= 2

\* the samples of a run from (time, state), by the configuration alone
RECURSIVE RefSamples(_, _, _, _)
RefSamples(state, time, final, step) ==
  IF time >= final
    THEN << [t |-> time, y |-> state] >>
    ELSE LET h == Min(step, final - time) IN
         << [t |-> time, y |-> state] >>
           \o RefSamples(Advance(state, h), time + h, final, step)

\* what a run on x0 returns, by x0 and the configuration alone
RefRun(x0) ==
  LET s == RefSamples(x0, args.start_time, args.final_time, args.time_step)
      r == args.radius_bounding_sphere
      cross == {i \in 2..Len(s) :
                  DistanceNonNegative(s[i - 1].y.pos, r)
                    # DistanceNonNegative(s[i].y.pos, r)}
  IN  [traj |-> s,
       sq |-> [i \in 1..Len(s) |-> NormSq(s[i].y.pos)],
       penalty |-> IF \E i \in cross : InsideMesh(s[i].y.pos, MeshVertices)
                     THEN 1 ELSE 0]

\* the fitness of x0, by x0 and the configuration alone
RefFitness(x0) ==
  LET r == RefRun(x0) IN
  [num |-> SumSeq([i \in 1..Len(r.sq) |-> Abs(r.sq[i] - args.target_altitude)]),
   den |-> Len(r.sq),
   penalty |-> r.penalty]

\* C6: what an evaluation returns (trajectory, squared altitudes, penalty,
\* fitness) is a function of its initial state and the configuration alone,
\* whatever the debug counter k and the event function's flag were before.
C6_Deterministic ==
  (pc = "IDLE" /\ Has(last, "run")) =>
    /\ last.run = RefRun(last.x)
    /\ last.fn # "fitness" => last.out = last.run
    /\ last.fn = "fitness" => last.out = << RefFitness(last.x) >>

C6_LaterEvaluation ==
  /\ pc = "IDLE"
  /\ Has(last, "run")
  /\ last.fn = "fitness"
  /\ self.k = 3
  /\ Len(last.run.traj) >= 3
  /\ last.run.penalty = 1

\* C8: fitness returns a one-element list holding the mean over the samples
\* of |squared altitude - target altitude| plus the run's penalty, at least
\* 1e30 for a run with a collision; get_bounds returns the pair of bounds
\* given at construction.
C8_FitnessAndBounds ==
  /\ (pc = "IDLE" /\ Has(last, "fn") /\ last.fn = "fitness") =>
       /\ Len(last.out) = 1
       /\ last.out[1].den = Len(last.run.traj)
       /\ last.out[1].num =
            SumSeq([i \in 1..Len(last.run.traj) |->
                      Abs(NormSq(last.run.traj[i].y.pos) - args.target_altitude)])
       /\ last.out[1].penalty = last.run.penalty
       /\ last.run.penalty >= 1 => (last.out[1].penalty >= 1 /\ last.out[1].num >= 0)
  /\ (pc = "IDLE" /\ Has(last, "fn") /\ last.fn = "get_bounds") =>
       last.out = <<args.lower_bounds, args.upper_bounds>>

C8_CollidingCandidate ==
  /\ pc = "IDLE"
  /\ Has(last, "fn")
  /\ last.fn = "fitness"
  /\ last.run.penalty = 1
  /\ last.out[1].num > 0

\* C9, for the runs that start outside the bounding sphere: if the
\* trajectory reaches a position inside the mesh, a risk-zone event was
\* recorded at an earlier or equal time and the run's penalty is 1e30.
C9_CollisionSeen ==
  (pc = "DONE" /\ ~DistanceNonNegative(x.pos, self.radius_bounding_sphere)) =>
    \A i \in 1..Len(traj) :
      InsideMesh(traj[i].y.pos, MeshVertices) =>
        /\ \E j \in 1..Len(events) : events[j].t <= traj[i].t
        /\ collision_penalty = 1

PhaseOrder ==
  /\ pc = "INIT" => pc' \in {"INIT", "INTEGRATING"}
  /\ pc = "INTEGRATING" => pc' \in {"INTEGRATING", "FINISHED"}
  /\ pc = "FINISHED" => pc' \in {"FINISHED", "CLASSIFY"}
  /\ pc = "CLASSIFY" => pc' \in {"CLASSIFY", "DONE"}
  /\ pc' = "DONE" => pc \in {"CLASSIFY", "DONE"}

=============================================================================
